---- MODULE Spec2Model ----
(***************************************************************************)
(* The order routes of src/server.js (POST /api/orders, PUT .../cancel,    *)
(* PUT .../reupload, PUT /api/admin/orders/:id, PUT .../reject) over the   *)
(* three collections they touch: Livestock, Order and User.                *)
(*                                                                         *)
(* Every `await` of a handler on a database call is one step: the call     *)
(* takes effect atomically in the store, and calls of different requests   *)
(* interleave freely.  A handler's response is sent in the step of its     *)
(* last database call.  Every database call may throw (argument dbOk);     *)
(* the handler's catch block then answers 500 and logs the error.          *)
(*                                                                         *)
(* Documents are functions from the paths they hold to values; a path a    *)
(* document does not hold reads as undefined.  Mongoose runs the Order     *)
(* model in strict mode (the default), so a path that orderSchema does not *)
(* declare is dropped from constructor arguments and from updates.         *)
(***************************************************************************)
EXTENDS Naturals, Sequences, FiniteSets, TLC

VARIABLES
    livestock,  \* Livestock collection: listing _id -> its status
    orders,     \* Order collection: sequence of documents, _id = index
    users,      \* User collection: user _id -> [cart, notifications]
    hs,         \* per request handler: position and local variables
    out         \* the last response sent, with the error the handler logged

vars == <<livestock, orders, users, hs, out>>

----------------------------------------------------------------------------
(* Bounds and input domains *)

MaxOrders == 2          \* orders ever created
MaxOwnedOrders == 1     \* orders ever created where their whole life is followed
MaxNotifs == 1          \* notifications per inbox
MaxInbox == 2           \* notifications per inbox where inboxes are followed
MaxClock == 2           \* readings of the clock where time is followed

Listings == {"L1", "L2", "L3"}
\* the _id given to a listing that staff add (POST /api/admin/livestock)
NewListings == {"L4"}
AllListings == Listings \cup NewListings
\* what the store holds under an _id that has no document: the _id was not
\* given out yet, or its document was deleted
Unsaved == "unsaved"
Deleted == "deleted"
Users == {"u1", "u2"}
Handlers == {"h1", "h2"}
\* req.params.id: the _id of a stored order, or one that no order has
OrderIds == 1..(Len(orders) + 1)

Undefined == "undefined"     \* a value the request or document does not hold
NoFile == "nofile"           \* req.file of a request without an upload

\* POST /api/orders requests: the authenticated user, the multipart form
\* fields (items parsed or malformed, total, date) and the uploaded file.
\* items stands for the parsed array, as the set of its elements' _id.
\* u1 orders L1 and L2 and u2 orders L2 and L3 (the overlapping baskets);
\* the rest are u1's requests with an empty basket, a status field of the
\* client's own, a userId field naming another user, or a field that fails.
GoodBody(items) ==
    [parseOk |-> TRUE, items |-> items, total |-> "500", date |-> "2024-01-01",
     status |-> Undefined, userId |-> Undefined]
CreateRequests ==
    {[user |-> "u1", file |-> "proofA", body |-> GoodBody({"L1", "L2"})],
     [user |-> "u2", file |-> "proofA", body |-> GoodBody({"L2", "L3"})],
     [user |-> "u1", file |-> NoFile, body |-> GoodBody({})],
     [user |-> "u1", file |-> "proofA",
      body |-> [GoodBody({"L1", "L2"}) EXCEPT !.status = "Delivered"]],
     [user |-> "u1", file |-> "proofA",
      body |-> [GoodBody({"L1", "L2"}) EXCEPT !.userId = "u2"]],
     [user |-> "u1", file |-> "proofA",
      body |-> [GoodBody({"L1", "L2"}) EXCEPT !.total = "abc"]],
     [user |-> "u1", file |-> "proofA",
      body |-> [GoodBody({"L1", "L2"}) EXCEPT !.date = Undefined]],
     [user |-> "u1", file |-> "proofA",
      body |-> [GoodBody({}) EXCEPT !.parseOk = FALSE]]}
\* req.file
Files == {"proofA", NoFile}
\* req.body.reason
Reasons == {"bad scan", Undefined}
\* req.body.status of the admin route: any string the caller sends
StatusInputs == {"Shipped", "Delivered", "Cancelled", "Refunded"}
\* req.params.id of the catalog route: a listing's _id, or a string that is
\* no ObjectId
ListingIds == AllListings \cup {"not-an-id"}
\* req.body of the catalog route: the fields staff send
LivestockUpdates == {[price |-> "600"], [status |-> "Available"], [status |-> "Sold"]}
\* req.body of POST /api/admin/livestock: the fields staff send
LivestockPosts ==
    {[name |-> "goat", type |-> "Goat", price |-> "250", status |-> Undefined],
     [name |-> "goat", type |-> "Goat", price |-> "250", status |-> "Sold"],
     [name |-> Undefined, type |-> "Goat", price |-> "250", status |-> Undefined]}
\* the cart each user holds at the start
InitialCart(u) == CASE u = "u1" -> {"L1", "L2"} [] u = "u2" -> {"L2", "L3"}
\* the wishlist and the addresses each user holds at the start
InitialWishlist(u) == CASE u = "u1" -> {"L3"} [] u = "u2" -> {"L1"}
InitialAddresses(u) == CASE u = "u1" -> <<"home">> [] u = "u2" -> <<"farm">>

----------------------------------------------------------------------------
(* Order model: src/models/Order.js *)

\* (mutant) the schema with a rejectionReason path declared
OrderSchemaWithReason ==
    {"customer", "userId", "date", "items", "total", "status", "address", "createdAt",
     "rejectionReason"}

OrderSchemaPaths ==
    {"customer", "userId", "date", "items", "total", "status", "address", "createdAt"}

RequiredPaths == {"customer", "userId", "date", "total"}

DefaultStatus == "Processing"

\* strict mode: only declared paths reach the document or the update
StrictCast(fields) ==
    [p \in (DOMAIN fields) \cap OrderSchemaPaths |-> fields[p]]

\* doc.path, undefined when the document does not hold the path
Get(doc, p) == IF p \in DOMAIN doc THEN doc[p] ELSE Undefined

\* (mutant) an update that also empties the document's items
ApplyUpdateDropItems(doc, upd) ==
    [p \in (DOMAIN doc) \cup (DOMAIN upd) |->
        IF p = "items" THEN {} ELSE IF p \in DOMAIN upd THEN upd[p] ELSE doc[p]]

\* $set of an update on a stored document
ApplyUpdate(doc, upd) ==
    [p \in (DOMAIN doc) \cup (DOMAIN upd) |->
        IF p \in DOMAIN upd THEN upd[p] ELSE doc[p]]

\* items: [{ _id: String, ..., type: String, ... }] (lines 7-14): the key
\* `type` in the element declares an array of String, so each item of a new
\* order is cast to a string, its _id, and a stored item is that string.
\* order.items.map(item => item._id) reads _id of a string: undefined for
\* each stored item
StoredItemIds(order) == {Undefined : i \in order.items}

\* total: { type: Number }: the form field cast to a number
CanCastNumber(s) == s \in {"500"}
CastNumber(s) == CASE s = "500" -> 500

UserName(u) == CASE u = "u1" -> "Asha" [] u = "u2" -> "Ravi"

\* (mutant) the status field of the request body copied into the new order
NewOrderClientStatus(u, body, file) ==
    LET base == [customer |-> UserName(u), userId |-> u, items |-> body.items,
                 status |-> IF body.status = Undefined THEN DefaultStatus
                            ELSE body.status]
        withDate == IF body.date = Undefined THEN base
                    ELSE base @@ [date |-> body.date]
        withTotal == IF CanCastNumber(body.total)
                     THEN withDate @@ [total |-> CastNumber(body.total)]
                     ELSE withDate
    IN  StrictCast(withTotal)

\* (mutant) the owner taken from the request body when it names one
NewOrderBodyOwner(u, body, file) ==
    LET owner == IF body.userId = Undefined THEN u ELSE body.userId
        base == [customer |-> UserName(u), userId |-> owner, items |-> body.items,
                 status |-> DefaultStatus]
        withDate == IF body.date = Undefined THEN base
                    ELSE base @@ [date |-> body.date]
        withTotal == IF CanCastNumber(body.total)
                     THEN withDate @@ [total |-> CastNumber(body.total)]
                     ELSE withDate
        withProof == IF file = NoFile THEN withTotal
                     ELSE withTotal @@ [paymentProof |-> file]
    IN  StrictCast(withProof)

\* new Order({ items, address, total, date, paymentProof, userId, customer }):
\* the handler passes no status, so the schema default applies, and takes
\* userId from req.user, not from the body
NewOrder(u, body, file) ==
    LET base == [customer |-> UserName(u), userId |-> u, items |-> body.items,
                 status |-> DefaultStatus]
        withDate == IF body.date = Undefined THEN base
                    ELSE base @@ [date |-> body.date]
        withTotal == IF CanCastNumber(body.total)
                     THEN withDate @@ [total |-> CastNumber(body.total)]
                     ELSE withDate
        withProof == IF file = NoFile THEN withTotal
                     ELSE withTotal @@ [paymentProof |-> file]
    IN  StrictCast(withProof)

\* validation run by save(): required paths present
Validates(doc) == RequiredPaths \subseteq DOMAIN doc

----------------------------------------------------------------------------
(* Handler state *)

Idle == [pc |-> "idle", user |-> "u1", oid |-> 0, items |-> {},
         reason |-> Undefined, file |-> NoFile, id |-> 0, timestamp |-> 0]

Response(op, code, err) ==
    [op |-> op, code |-> code, err |-> err, unavailable |-> {}, body |-> "none"]

Init ==
    /\ livestock = [l \in AllListings |->
                        IF l \in Listings THEN "Available" ELSE Unsaved]
    /\ orders = <<>>
    /\ users = [u \in Users |->
                [cart |-> InitialCart(u), notifications |-> <<>>,
                 wishlist |-> InitialWishlist(u), addresses |-> InitialAddresses(u)]]
    /\ hs = [h \in Handlers |-> Idle]
    /\ out = Response("none", 0, "none")

\* A request is served by a handler that is free; which one does not matter,
\* so a new request takes the first free one.
HandlerRank(h) == CASE h = "h1" -> 1 [] h = "h2" -> 2
Free(h) ==
    /\ hs[h].pc = "idle"
    /\ \A g \in Handlers : hs[g].pc = "idle" => HandlerRank(h) <= HandlerRank(g)

\* the handler answers and ends
Finish(h, op, code, err) ==
    /\ hs' = [hs EXCEPT ![h] = Idle]
    /\ out' = Response(op, code, err)

\* models/Livestock.js is not among the sources; these are the paths the admin
\* route gives a new listing (lines 225-232), status among them.
LivestockSchemaPaths ==
    {"name", "type", "breed", "age", "weight", "price", "tags", "status", "image"}

\* the _id has a document in the Livestock collection
Stored(l) == livestock[l] \notin {Unsaved, Deleted}

\* (mutant) an update of listings that flips the ones already in the status
UpdateManyToggle(itemIds, status) ==
    [l \in AllListings |->
        IF l \notin itemIds \/ ~Stored(l) THEN livestock[l]
        ELSE IF livestock[l] # status THEN status
        ELSE IF status = "Available" THEN "Sold" ELSE "Available"]

\* (mutant) an update of listings that ignores the filter
UpdateManyEvery(itemIds, status) ==
    [l \in AllListings |->
        IF itemIds # {} /\ Stored(l) THEN status ELSE livestock[l]]

\* Livestock.updateMany({ _id: { $in: itemIds } }, { $set: { status } }):
\* the documents that the filter matches
UpdateMany(itemIds, status) ==
    [l \in AllListings |->
        IF l \in itemIds /\ Stored(l) /\ "status" \in LivestockSchemaPaths
        THEN status ELSE livestock[l]]

----------------------------------------------------------------------------
(* POST /api/orders *)

\* lines 384-403: parse the body, build the order, save it
CreateOrderSave(h, u, body, file, dbOk) ==
    /\ Free(h)
    /\ LET newOrder == NewOrder(u, body, file) IN
       IF ~body.parseOk THEN
            /\ Finish(h, "createOrder", 500, "SyntaxError")
            /\ UNCHANGED <<livestock, orders, users>>
       ELSE IF ~Validates(newOrder) THEN
            /\ Finish(h, "createOrder", 500, "ValidationError")
            /\ UNCHANGED <<livestock, orders, users>>
       ELSE IF ~dbOk THEN
            /\ Finish(h, "createOrder", 500, "StorageFault")
            /\ UNCHANGED <<livestock, orders, users>>
       ELSE
            /\ Len(orders) < MaxOrders
            /\ orders' = Append(orders, newOrder)
            /\ hs' = [hs EXCEPT ![h] =
                        [Idle EXCEPT !.pc = IF body.items = {} THEN "create_clearCart"
                                            ELSE "create_reserve",
                                     !.user = u, !.oid = Len(orders) + 1,
                                     !.items = body.items]]
            /\ UNCHANGED <<livestock, users, out>>

\* lines 405-411: mark the ordered listings Sold
CreateOrderReserve(h, dbOk) ==
    /\ hs[h].pc = "create_reserve"
    /\ IF dbOk THEN
            /\ livestock' = UpdateMany(hs[h].items, "Sold")
            /\ hs' = [hs EXCEPT ![h].pc = "create_clearCart"]
            /\ UNCHANGED <<orders, users, out>>
       ELSE
            /\ Finish(h, "createOrder", 500, "StorageFault")
            /\ UNCHANGED <<livestock, orders, users>>

\* lines 413-415: clear the cart, answer 201 with the order
CreateOrderClearCart(h, dbOk) ==
    /\ hs[h].pc = "create_clearCart"
    /\ IF dbOk THEN
            /\ users' = [users EXCEPT ![hs[h].user].cart = {}]
            /\ Finish(h, "createOrder", 201, "none")
            /\ UNCHANGED <<livestock, orders>>
       ELSE
            /\ Finish(h, "createOrder", 500, "StorageFault")
            /\ UNCHANGED <<livestock, orders, users>>

----------------------------------------------------------------------------
(* PUT /api/orders/:id/cancel *)

\* (mutant) the order looked up by _id alone
FindAnyOwner(o, u) == o \in DOMAIN orders

\* Order.findOne({ _id, userId })
FindOwned(o, u) == o \in DOMAIN orders /\ orders[o].userId = u

\* (mutant) the status check of line 427 left out
CancellableAnyStatus(order) == order.status = order.status

\* line 427: only a Processing order may be cancelled
Cancellable(order) == order.status = "Processing"

\* lines 425-427: load the order, refuse unless it is the requester's and Processing
CancelFind(h, u, o, dbOk) ==
    /\ Free(h)
    /\ IF ~dbOk THEN
            /\ Finish(h, "cancelOrder", 500, "StorageFault")
       ELSE IF ~FindOwned(o, u) THEN
            /\ Finish(h, "cancelOrder", 404, "none")
       ELSE IF ~Cancellable(orders[o]) THEN
            /\ Finish(h, "cancelOrder", 400, "none")
       ELSE
            /\ hs' = [hs EXCEPT ![h] =
                        [Idle EXCEPT !.pc = "cancel_save", !.user = u, !.oid = o,
                                     !.items = StoredItemIds(orders[o])]]
            /\ out' = out
    /\ UNCHANGED <<livestock, orders, users>>

\* (mutant) the cancelled order deleted from the store
CancelSaveRemoves(h, dbOk) ==
    /\ hs[h].pc = "cancel_save"
    /\ IF dbOk THEN
            /\ orders' = SubSeq(orders, 1, hs[h].oid - 1)
                            \o SubSeq(orders, hs[h].oid + 1, Len(orders))
            /\ Finish(h, "cancelOrder", 200, "none")
       ELSE
            /\ Finish(h, "cancelOrder", 500, "StorageFault")
            /\ orders' = orders
    /\ UNCHANGED <<livestock, users>>

\* lines 429-430: order.status = 'Cancelled'; order.save() writes the modified path.
\* With no items the handler answers right after the save (line 433).
CancelSave(h, dbOk) ==
    /\ hs[h].pc = "cancel_save"
    /\ IF dbOk THEN
            /\ orders' = [orders EXCEPT ![hs[h].oid] =
                            ApplyUpdate(@, StrictCast([status |-> "Cancelled"]))]
            /\ IF hs[h].items = {}
               THEN Finish(h, "cancelOrder", 200, "none")
               ELSE /\ hs' = [hs EXCEPT ![h].pc = "cancel_release"]
                    /\ out' = out
       ELSE
            /\ Finish(h, "cancelOrder", 500, "StorageFault")
            /\ orders' = orders
    /\ UNCHANGED <<livestock, users>>

\* (mutant) a release that answers 409 when its update changed no listing
CancelReleaseStrict(h, dbOk) ==
    /\ hs[h].pc = "cancel_release"
    /\ IF dbOk THEN
            /\ livestock' = UpdateMany(hs[h].items, "Available")
            /\ IF livestock' = livestock
               THEN Finish(h, "cancelOrder", 409, "none")
               ELSE Finish(h, "cancelOrder", 200, "none")
       ELSE
            /\ Finish(h, "cancelOrder", 500, "StorageFault")
            /\ livestock' = livestock
    /\ UNCHANGED <<orders, users>>

\* lines 432-440: updateMany over the ids read from the stored items, answer 200
CancelRelease(h, dbOk) ==
    /\ hs[h].pc = "cancel_release"
    /\ IF dbOk THEN
            /\ livestock' = UpdateMany(hs[h].items, "Available")
            /\ Finish(h, "cancelOrder", 200, "none")
       ELSE
            /\ Finish(h, "cancelOrder", 500, "StorageFault")
            /\ livestock' = livestock
    /\ UNCHANGED <<orders, users>>

----------------------------------------------------------------------------
(* PUT /api/admin/orders/:id/reject *)

\* line 300: reason || 'Invalid payment proof.'
ReasonOrDefault(reason) ==
    IF reason = Undefined \/ reason = "" THEN "Invalid payment proof." ELSE reason

\* rejections that have updated their order and not yet pushed to user u's inbox
PendingNotifs(u) ==
    Cardinality({h \in Handlers : hs[h].pc = "reject_notify" /\ hs[h].user = u})

\* lines 295-315: findByIdAndUpdate(id, { status, rejectionReason }, { new: true });
\* when it has answered the handler builds the notification, reading
\* Date.now() once for the id (line 309, idNow) and once more for the
\* timestamp (line 314, tsNow), and sends the $push
RejectUpdate(h, o, reason, idNow, tsNow, dbOk) ==
    /\ Free(h)
    /\ IF ~dbOk THEN
            /\ Finish(h, "rejectPayment", 500, "StorageFault")
            /\ orders' = orders
       ELSE IF o \notin DOMAIN orders THEN
            /\ Finish(h, "rejectPayment", 404, "none")
            /\ orders' = orders
       ELSE
            /\ orders' = [orders EXCEPT ![o] =
                            ApplyUpdate(@, StrictCast(
                                [status |-> "Payment Rejected",
                                 rejectionReason |-> ReasonOrDefault(reason)]))]
            /\ hs' = [hs EXCEPT ![h] =
                        [Idle EXCEPT !.pc = "reject_notify", !.user = orders[o].userId,
                                     !.oid = o, !.reason = reason,
                                     !.id = idNow, !.timestamp = tsNow]]
            /\ out' = out
    /\ UNCHANGED <<livestock, users>>

\* lines 307-319: the $push of the notification the handler built takes
\* effect on the inbox of order.userId, answer 200
RejectNotify(h, dbOk) ==
    /\ hs[h].pc = "reject_notify"
    /\ IF dbOk THEN
            /\ users' = [users EXCEPT ![hs[h].user].notifications =
                            Append(@, [id |-> hs[h].id,
                                       timestamp |-> hs[h].timestamp,
                                       title |-> "Payment Rejected",
                                       order |-> hs[h].oid,
                                       reason |-> hs[h].reason,
                                       seen |-> FALSE])]
            /\ Finish(h, "rejectPayment", 200, "none")
       ELSE
            /\ Finish(h, "rejectPayment", 500, "StorageFault")
            /\ users' = users
    /\ UNCHANGED <<livestock, orders>>

----------------------------------------------------------------------------
(* PUT /api/admin/orders/:id *)

\* (mutant) the status written to every stored order
SetOrderStatusEveryOrder(o, status, dbOk) ==
    /\ IF ~dbOk THEN
            /\ out' = Response("setOrderStatus", 500, "none")
            /\ orders' = orders
       ELSE
            /\ out' = Response("setOrderStatus", 200, "none")
            /\ orders' = IF o \in DOMAIN orders
                         THEN [a \in DOMAIN orders |->
                                ApplyUpdate(orders[a], StrictCast([status |-> status]))]
                         ELSE orders
    /\ UNCHANGED <<livestock, users, hs>>

\* (mutant) a status write that is refused unless the order is Processing
SetOrderStatusValidated(o, status, dbOk) ==
    /\ IF ~dbOk THEN
            /\ out' = Response("setOrderStatus", 500, "none")
            /\ orders' = orders
       ELSE IF o \in DOMAIN orders /\ orders[o].status # "Processing" THEN
            /\ out' = Response("setOrderStatus", 400, "none")
            /\ orders' = orders
       ELSE
            /\ out' = Response("setOrderStatus", 200, "none")
            /\ orders' = IF o \in DOMAIN orders
                         THEN [orders EXCEPT ![o] =
                                ApplyUpdate(@, StrictCast([status |-> status]))]
                         ELSE orders
    /\ UNCHANGED <<livestock, users, hs>>

\* lines 328-333: findByIdAndUpdate(id, { status }); the result, null included,
\* is answered with 200
SetOrderStatus(o, status, dbOk) ==
    /\ IF ~dbOk THEN
            /\ out' = Response("setOrderStatus", 500, "none")
            /\ orders' = orders
       ELSE
            /\ out' = Response("setOrderStatus", 200, "none")
            /\ orders' = IF o \in DOMAIN orders
                         THEN [orders EXCEPT ![o] =
                                ApplyUpdate(@, StrictCast([status |-> status]))]
                         ELSE orders
    /\ UNCHANGED <<livestock, users, hs>>

----------------------------------------------------------------------------
(* PUT /api/orders/:id/reupload *)

\* (mutant) the requester's order loaded before the file is looked at
ReuploadFindLookupFirst(h, u, o, file, dbOk) ==
    /\ Free(h)
    /\ IF ~dbOk THEN
            /\ Finish(h, "resubmitProof", 500, "StorageFault")
       ELSE IF ~FindOwned(o, u) THEN
            /\ Finish(h, "resubmitProof", 404, "none")
       ELSE IF file = NoFile THEN
            /\ Finish(h, "resubmitProof", 400, "none")
       ELSE
            /\ hs' = [hs EXCEPT ![h] =
                        [Idle EXCEPT !.pc = "reupload_update", !.user = u, !.oid = o,
                                     !.file = file]]
            /\ out' = out
    /\ UNCHANGED <<livestock, orders, users>>

\* lines 360-363: need a file, then load the requester's order
ReuploadFind(h, u, o, file, dbOk) ==
    /\ Free(h)
    /\ IF file = NoFile THEN
            /\ Finish(h, "resubmitProof", 400, "none")
       ELSE IF ~dbOk THEN
            /\ Finish(h, "resubmitProof", 500, "StorageFault")
       ELSE IF ~FindOwned(o, u) THEN
            /\ Finish(h, "resubmitProof", 404, "none")
       ELSE
            /\ hs' = [hs EXCEPT ![h] =
                        [Idle EXCEPT !.pc = "reupload_update", !.user = u, !.oid = o,
                                     !.file = file]]
            /\ out' = out
    /\ UNCHANGED <<livestock, orders, users>>

\* lines 365-374: findByIdAndUpdate(id, { status, rejectionReason, paymentProof })
ReuploadUpdate(h, dbOk) ==
    /\ hs[h].pc = "reupload_update"
    /\ IF dbOk THEN
            /\ orders' = [orders EXCEPT ![hs[h].oid] =
                            ApplyUpdate(@, StrictCast(
                                [status |-> "Processing",
                                 rejectionReason |-> "",
                                 paymentProof |-> hs[h].file]))]
            /\ Finish(h, "resubmitProof", 200, "none")
       ELSE
            /\ Finish(h, "resubmitProof", 500, "StorageFault")
            /\ orders' = orders
    /\ UNCHANGED <<livestock, users>>

----------------------------------------------------------------------------

----------------------------------------------------------------------------
(* GET /api/admin/orders/proof/:id *)

\* lines 282-286: the answer for an order id over a store of orders: 404
\* unless the order exists and holds a proof, else 200 with the proof's data
ProofResult(store, o) ==
    IF o \notin DOMAIN store \/ Get(store[o], "paymentProof") = Undefined
    THEN [code |-> 404, body |-> "none"]
    ELSE [code |-> 200, body |-> Get(store[o], "paymentProof")]

\* lines 279-290
GetProof(o, dbOk) ==
    /\ out' = IF ~dbOk THEN Response("getProof", 500, "none")
              ELSE [Response("getProof", ProofResult(orders, o).code, "none")
                        EXCEPT !.body = ProofResult(orders, o).body]
    /\ UNCHANGED <<livestock, orders, users, hs>>

----------------------------------------------------------------------------
(* PUT /api/admin/livestock/:id *)

\* mongoose.Types.ObjectId.isValid(req.params.id)
IsValidId(id) == id \in AllListings

\* lines 244-255: updates = { ...req.body }; findByIdAndUpdate(id, updates).
\* Of a listing the model keeps its status, so only a status among the
\* updates shows. An _id without a document gives null, answered with 200.
UpdateLivestock(id, updates, dbOk) ==
    /\ IF ~IsValidId(id) THEN
            /\ out' = Response("updateLivestock", 400, "none")
            /\ livestock' = livestock
       ELSE IF ~dbOk THEN
            /\ out' = Response("updateLivestock", 500, "none")
            /\ livestock' = livestock
       ELSE
            /\ out' = Response("updateLivestock", 200, "none")
            /\ livestock' =
                    IF Stored(id) /\ "status" \in (DOMAIN updates) \cap LivestockSchemaPaths
                    THEN [livestock EXCEPT ![id] = updates.status]
                    ELSE livestock
    /\ UNCHANGED <<orders, users, hs>>

----------------------------------------------------------------------------
(* POST /api/admin/livestock, DELETE /api/admin/livestock/:id *)

\* lines 219-235: name, type and price are required; the new listing gets a
\* fresh _id and the status of the body, or Available; lines 236-238: a failed
\* save is answered 500 and nothing is logged
PostLivestock(body, dbOk) ==
    /\ IF body.name = Undefined \/ body.type = Undefined \/ body.price = Undefined THEN
            /\ out' = Response("postLivestock", 400, "none")
            /\ livestock' = livestock
       ELSE IF ~dbOk THEN
            /\ out' = Response("postLivestock", 500, "none")
            /\ livestock' = livestock
       ELSE
            /\ \E l \in NewListings : livestock[l] = Unsaved
            /\ LET l == CHOOSE n \in NewListings : livestock[n] = Unsaved IN
                    livestock' = [livestock EXCEPT ![l] =
                                    IF body.status = Undefined THEN "Available"
                                    ELSE body.status]
            /\ out' = Response("postLivestock", 201, "none")
    /\ UNCHANGED <<orders, users, hs>>

\* lines 261-263: findByIdAndDelete(id), answered 204 whether or not a
\* document was there
DeleteLivestock(id, dbOk) ==
    /\ IF ~IsValidId(id) THEN
            /\ out' = Response("deleteLivestock", 400, "none")
            /\ livestock' = livestock
       ELSE IF ~dbOk THEN
            /\ out' = Response("deleteLivestock", 500, "none")
            /\ livestock' = livestock
       ELSE
            /\ out' = Response("deleteLivestock", 204, "none")
            /\ livestock' = IF Stored(id) THEN [livestock EXCEPT ![id] = Deleted]
                             ELSE livestock
    /\ UNCHANGED <<orders, users, hs>>

----------------------------------------------------------------------------
(* PUT /api/user/state *)

\* req.body of the route: the client's copy of its state. Either the state
\* the user started with and the inbox as it is with every record seen, or a
\* cart of L3 alone with the wishlist, the addresses and the inbox emptied
UserStates(u) ==
    {[cart |-> InitialCart(u), wishlist |-> InitialWishlist(u),
      addresses |-> InitialAddresses(u),
      notifications |-> [i \in DOMAIN users[u].notifications |->
                            [users[u].notifications[i] EXCEPT !.seen = TRUE]]],
     [cart |-> {"L3"}, wishlist |-> {}, addresses |-> <<>>, notifications |-> <<>>]}

\* lines 163-176: findByIdAndUpdate(req.user.id, { $set: { cart, wishlist,
\* addresses, notifications } }); a failure is answered 400
SyncUserState(u, state, dbOk) ==
    /\ IF dbOk THEN
            /\ users' = [users EXCEPT ![u] =
                            [cart |-> state.cart, wishlist |-> state.wishlist,
                             addresses |-> state.addresses,
                             notifications |-> state.notifications]]
            /\ out' = Response("syncUserState", 200, "none")
       ELSE
            /\ users' = users
            /\ out' = Response("syncUserState", 400, "StorageFault")
    /\ UNCHANGED <<livestock, orders, hs>>

----------------------------------------------------------------------------
(* connectDB *)

\* line 23 false, lines 382 and 423: a request arrives while no connection is
\* cached and its handler awaits connectDB(), before its try block
AwaitConnect(h) ==
    /\ Free(h)
    /\ hs' = [hs EXCEPT ![h].pc = "connect"]
    /\ UNCHANGED <<livestock, orders, users, out>>

\* lines 26-37: mongoose.connect resolves, and the handler enters its try
\* block (the route actions, which start from a free handler), or it rejects
\* and connectDB throws. The await is outside the handler's try, so the
\* rejection is caught by nothing and no response is written: the runtime
\* either goes on, leaving this request without a response, or exits on the
\* unhandled rejection, dropping every request in flight.
ConnectDB(h, connOk, exits) ==
    /\ hs[h].pc = "connect"
    /\ hs' = IF connOk THEN [hs EXCEPT ![h] = Idle]
             ELSE IF exits
             THEN [g \in Handlers |->
                     IF hs[g].pc = "idle" THEN hs[g]
                     ELSE [hs[g] EXCEPT !.pc = "no_response"]]
             ELSE [hs EXCEPT ![h].pc = "no_response"]
    /\ UNCHANGED <<livestock, orders, users, out>>

----------------------------------------------------------------------------
(* Next-state relations *)

\* u1's requests for L1 and L2
OwnerRequests == {r \in CreateRequests : r.user = "u1" /\ r.body.items # {}}

\* the first order of each user, for a user who has no order yet: u1's
\* request is the one whose body names u2 in a userId field, u2's request
\* has no such field
FirstOrderRequests ==
    {r \in CreateRequests :
        /\ r.body \in {[GoodBody({"L1", "L2"}) EXCEPT !.userId = "u2"],
                        GoodBody({"L2", "L3"})}
        /\ \A o \in DOMAIN orders : orders[o].userId # r.user}

\* the handler of a run that serves one request at a time
Serial == {"h1"}

CreateOrder(H, requests, maxOrders) ==
    \/ /\ Len(orders) < maxOrders
       /\ \E h \in H, r \in requests, dbOk \in BOOLEAN :
            CreateOrderSave(h, r.user, r.body, r.file, dbOk)
    \/ \E h \in H, dbOk \in BOOLEAN : CreateOrderReserve(h, dbOk)
    \/ \E h \in H, dbOk \in BOOLEAN : CreateOrderClearCart(h, dbOk)

CancelOrder(H) ==
    \/ \E h \in H, u \in Users, o \in OrderIds, dbOk \in BOOLEAN :
            CancelFind(h, u, o, dbOk)
    \/ \E h \in H, dbOk \in BOOLEAN : CancelSave(h, dbOk)
    \/ \E h \in H, dbOk \in BOOLEAN : CancelRelease(h, dbOk)

\* room in the inbox a rejection of order o would write to
InboxHasRoom(o, maxNotifs) ==
    o \in DOMAIN orders
        => Len(users[orders[o].userId].notifications)
                + PendingNotifs(orders[o].userId) < maxNotifs

\* a clock that stands still
FrozenClock == {1}

\* Date.now() is the system clock: two readings may be equal, and the later
\* one may be the smaller when the clock is set back
RejectPayment(H, maxNotifs, times) ==
    \/ \E h \in H, o \in OrderIds, reason \in Reasons, dbOk \in BOOLEAN :
            \E idNow \in times, tsNow \in times :
                InboxHasRoom(o, maxNotifs) /\ RejectUpdate(h, o, reason, idNow, tsNow, dbOk)
    \/ \E h \in H, dbOk \in BOOLEAN : RejectNotify(h, dbOk)

AdminSetStatus ==
    \E o \in OrderIds, status \in StatusInputs, dbOk \in BOOLEAN :
        SetOrderStatus(o, status, dbOk)

AdminUpdateLivestock ==
    \E id \in ListingIds, updates \in LivestockUpdates, dbOk \in BOOLEAN :
        UpdateLivestock(id, updates, dbOk)

AdminPostLivestock ==
    \E body \in LivestockPosts, dbOk \in BOOLEAN : PostLivestock(body, dbOk)

AdminDeleteLivestock ==
    \E id \in ListingIds, dbOk \in BOOLEAN : DeleteLivestock(id, dbOk)

UserSync ==
    \E u \in Users, dbOk \in BOOLEAN :
        \E state \in UserStates(u) : SyncUserState(u, state, dbOk)

Connect(H) ==
    \/ \E h \in H : AwaitConnect(h)
    \/ \E h \in H, connOk \in BOOLEAN, exits \in BOOLEAN : ConnectDB(h, connOk, exits)

AdminGetProof ==
    \E o \in OrderIds, dbOk \in BOOLEAN : GetProof(o, dbOk)

ResubmitProof(H) ==
    \/ \E h \in H, u \in Users, o \in OrderIds, file \in Files, dbOk \in BOOLEAN :
            ReuploadFind(h, u, o, file, dbOk)
    \/ \E h \in H, dbOk \in BOOLEAN : ReuploadUpdate(h, dbOk)

\* every route, every input, requests in parallel
Next ==
    \/ CreateOrder(Handlers, CreateRequests, MaxOrders)
    \/ CancelOrder(Handlers)
    \/ RejectPayment(Handlers, MaxInbox, 1..MaxClock)
    \/ AdminSetStatus
    \/ ResubmitProof(Handlers)
    \/ AdminUpdateLivestock
    \/ AdminPostLivestock
    \/ AdminDeleteLivestock
    \/ AdminGetProof
    \/ UserSync
    \/ Connect(Handlers)

Spec == Init /\ [][Next]_vars

\* order creation, requests in parallel, by both users, overlapping baskets,
\* while the users write their state
NextCreate ==
    \/ CreateOrder(Handlers, CreateRequests, MaxOrders)
    \/ UserSync

SpecCreate == Init /\ [][NextCreate]_vars

\* order creation and owner cancellation, requests in parallel, by both users,
\* overlapping baskets
NextReservation ==
    \/ CreateOrder(Handlers, CreateRequests, MaxOrders)
    \/ CancelOrder(Handlers)

SpecReservation == Init /\ [][NextReservation]_vars

\* the requests of u1 and of u2 that order a full basket
BasketRequests ==
    {r \in CreateRequests : r.body = GoodBody(r.body.items) /\ r.body.items # {}}

\* full baskets ordered, requests in parallel, by both users, and orders
\* cancelled, while the users write their state
NextBasket ==
    \/ CreateOrder(Handlers, BasketRequests, MaxOrders)
    \/ CancelOrder(Serial)
    \/ UserSync

SpecBasket == Init /\ [][NextBasket]_vars

\* the life of u1's orders: creation, cancellation, rejection and proof
\* re-upload, requested by u1 and by u2 and served one request at a time, with
\* staff status writes falling between any two database calls
NextLifecycle ==
    \/ CreateOrder(Serial, OwnerRequests, MaxOwnedOrders)
    \/ CancelOrder(Serial)
    \/ RejectPayment(Serial, MaxNotifs, FrozenClock)
    \/ AdminSetStatus
    \/ ResubmitProof(Serial)

SpecLifecycle == Init /\ [][NextLifecycle]_vars

\* a user asks to cancel, or sends a proof for, a stored order of another user
Trespass(H) ==
    \/ \E h \in H, o \in DOMAIN orders, dbOk \in BOOLEAN :
            \E u \in Users \ {orders[o].userId} : CancelFind(h, u, o, dbOk)
    \/ \E h \in H, o \in DOMAIN orders, dbOk \in BOOLEAN :
            \E u \in Users \ {orders[o].userId}, file \in Files \ {NoFile} :
                ReuploadFind(h, u, o, file, dbOk)

\* u1's orders, moved through their statuses by staff, while the only cancel
\* and proof requests are those of a user who does not own the order
NextOwnership ==
    \/ CreateOrder(Serial, OwnerRequests, MaxOwnedOrders)
    \/ RejectPayment(Serial, MaxNotifs, FrozenClock)
    \/ AdminSetStatus
    \/ Trespass(Serial)

SpecOwnership == Init /\ [][NextOwnership]_vars

\* u1's orders created and cancelled while staff edit the catalog
NextCatalog ==
    \/ CreateOrder(Serial, OwnerRequests, MaxOwnedOrders)
    \/ CancelOrder(Serial)
    \/ AdminUpdateLivestock
    \/ AdminPostLivestock
    \/ AdminDeleteLivestock

SpecCatalog == Init /\ [][NextCatalog]_vars

\* u1's orders created, rejected and cancelled, served one request at a
\* time, while staff edit the catalog
NextRejected ==
    \/ CreateOrder(Serial, OwnerRequests, MaxOwnedOrders)
    \/ RejectPayment(Serial, MaxNotifs, FrozenClock)
    \/ CancelOrder(Serial)
    \/ AdminUpdateLivestock

SpecRejected == Init /\ [][NextRejected]_vars

\* u1's orders, each created with the proof file proofA, proofs sent again
\* by u1 and by u2, and staff fetching the proof of an order
NextProof ==
    \/ CreateOrder(Serial, OwnerRequests, MaxOwnedOrders)
    \/ ResubmitProof(Serial)
    \/ AdminSetStatus
    \/ AdminGetProof

SpecProof == Init /\ [][NextProof]_vars

\* u1's orders rejected again and again, by requests in parallel, while the
\* clock moves, stands or is set back and the users write their state
NextNotify ==
    \/ CreateOrder(Serial, OwnerRequests, MaxOwnedOrders)
    \/ RejectPayment(Handlers, MaxInbox, 1..MaxClock)
    \/ UserSync

SpecNotify == Init /\ [][NextNotify]_vars

\* an order of u1 and an order of u2 side by side, each moved through its
\* statuses by its owner and by staff, one request at a time, with no
\* storage fault and every request aimed at a stored order
NextPair ==
    \/ /\ Len(orders) < MaxOrders
       /\ \E h \in Serial, r \in FirstOrderRequests :
            CreateOrderSave(h, r.user, r.body, r.file, TRUE)
    \/ \E h \in Serial : CreateOrderReserve(h, TRUE)
    \/ \E h \in Serial : CreateOrderClearCart(h, TRUE)
    \/ \E h \in Serial, o \in DOMAIN orders :
            CancelFind(h, orders[o].userId, o, TRUE)
    \/ \E h \in Serial : CancelSave(h, TRUE)
    \/ \E h \in Serial : CancelRelease(h, TRUE)
    \/ \E h \in Serial, o \in DOMAIN orders, reason \in Reasons \ {Undefined} :
            \E now \in FrozenClock :
                InboxHasRoom(o, MaxNotifs) /\ RejectUpdate(h, o, reason, now, now, TRUE)
    \/ \E h \in Serial : RejectNotify(h, TRUE)
    \/ \E o \in DOMAIN orders, status \in StatusInputs : SetOrderStatus(o, status, TRUE)
    \/ \E h \in Serial, o \in DOMAIN orders, file \in Files \ {NoFile} :
            ReuploadFind(h, orders[o].userId, o, file, TRUE)
    \/ \E h \in Serial : ReuploadUpdate(h, TRUE)

SpecPair == Init /\ [][NextPair]_vars

\* the steps that continue the request a handler is serving
Continue(h) ==
    \/ \E connOk \in BOOLEAN, exits \in BOOLEAN : ConnectDB(h, connOk, exits)
    \/ \E dbOk \in BOOLEAN : CreateOrderReserve(h, dbOk)
    \/ \E dbOk \in BOOLEAN : CreateOrderClearCart(h, dbOk)
    \/ \E dbOk \in BOOLEAN : CancelSave(h, dbOk)
    \/ \E dbOk \in BOOLEAN : CancelRelease(h, dbOk)

\* requests that find the connection cached or wait for it, in parallel:
\* u1 creating and cancelling orders. The event loop resumes every handler
\* whose awaited call has settled, hence the fairness on each handler.
NextConnect ==
    \/ Connect(Handlers)
    \/ CreateOrder(Handlers, OwnerRequests, MaxOwnedOrders)
    \/ CancelOrder(Handlers)

SpecConnect ==
    /\ Init /\ [][NextConnect]_vars
    /\ \A h \in Handlers : WF_vars(Continue(h))

----------------------------------------------------------------------------
(* Properties *)

\* In the formulas below a step of RejectUpdate is named with the clock
\* readings the handler holds after it, whatever they were.

\* the listings of a basket that are not Available
Unavailable(items) == {l \in items : livestock[l] # "Available"}

\* C1: two createOrder requests in flight whose baskets share a listing are
\* never both past the reservation step: at most one of them holds the
\* listing reserved, the other having been turned away.
C1_MutualExclusion ==
    \A h1, h2 \in Handlers :
        (h1 # h2 /\ hs[h1].pc = "create_clearCart" /\ hs[h2].pc = "create_clearCart")
            => hs[h1].items \cap hs[h2].items = {}

\* C2: a createOrder request whose basket holds a listing that is not
\* Available changes no listing, persists no order and leaves the carts alone.
C2_AllOrNothing ==
    [][\A h \in Handlers, r \in CreateRequests, dbOk \in BOOLEAN :
        (CreateOrderSave(h, r.user, r.body, r.file, dbOk) /\ Unavailable(r.body.items) # {})
            => UNCHANGED <<livestock, orders, users>>]_vars

\* C3: a createOrder request whose basket holds listings that are not Available
\* is answered with an error that names exactly those listings, and changes
\* no listing.
C3_ConflictNamesUnavailable ==
    [][\A h \in Handlers, r \in CreateRequests, dbOk \in BOOLEAN :
        (CreateOrderSave(h, r.user, r.body, r.file, dbOk) /\ Unavailable(r.body.items) # {})
            => /\ hs'[h].pc = "idle"
               /\ out'.op = "createOrder" /\ out'.code # 201
               /\ out'.unavailable = Unavailable(r.body.items)
               /\ livestock' = livestock]_vars

C5_ErrorLeavesNoOrder ==
    [][\A h \in Handlers :
        (/\ hs[h].pc \in {"create_reserve", "create_clearCart"}
         /\ hs'[h].pc = "idle"
         /\ out'.op = "createOrder" /\ out'.code = 500)
            => hs[h].oid \notin DOMAIN orders']_vars

\* C6: when the owner's cancelOrder answers 200 on an order that only
\* createOrder and cancelOrder have touched, the order is Cancelled and each
\* of its listings is Available.
C6_CancelRoundTrip ==
    [][\A h \in Handlers :
        (/\ hs[h].pc \in {"cancel_save", "cancel_release"}
         /\ hs'[h].pc = "idle"
         /\ out' = Response("cancelOrder", 200, "none"))
            => /\ orders'[hs[h].oid].status = "Cancelled"
               /\ orders'[hs[h].oid].userId = hs[h].user
               /\ \A l \in orders'[hs[h].oid].items : livestock'[l] = "Available"]_vars

\* C7: cancelOrder by the owner on an order that is not Processing is answered
\* 400 and changes no order, no listing and no user.
C7_IllegalCancel ==
    [][\A h \in Handlers, o \in DOMAIN orders :
        (/\ orders[o].status # "Processing"
         /\ CancelFind(h, orders[o].userId, o, TRUE))
            => /\ out' = Response("cancelOrder", 400, "none")
               /\ hs'[h].pc = "idle"
               /\ UNCHANGED <<livestock, orders, users>>]_vars

\* C7 witness: a cancelOrder has been answered 400 on a Shipped order
C7_Witness ==
    /\ out = Response("cancelOrder", 400, "none")
    /\ \E o \in DOMAIN orders : orders[o].status = "Shipped"

\* C8: rejectPayment on an existing order sets its status to Payment Rejected
\* and stores the reason in rejectionReason; its notification step appends
\* exactly one record to the owner's inbox and none to another inbox.
C8_RejectStoresReason ==
    [][/\ \A h \in Handlers, o \in OrderIds, reason \in Reasons :
            (RejectUpdate(h, o, reason, hs'[h].id, hs'[h].timestamp, TRUE) /\ o \in DOMAIN orders)
                => /\ orders'[o].status = "Payment Rejected"
                   /\ Get(orders'[o], "rejectionReason") = ReasonOrDefault(reason)
       /\ \A h \in Handlers :
            RejectNotify(h, TRUE)
                => \A u \in Users :
                    Len(users'[u].notifications) = Len(users[u].notifications)
                        + (IF u = orders[hs[h].oid].userId THEN 1 ELSE 0)]_vars

\* C9: resubmitProof by the owner on a Payment Rejected order sets the status
\* to Processing, leaves no rejection reason on the order and makes the new
\* file the order's stored proof.
C9_ResubmitReplacesProof ==
    [][\A h \in Handlers :
        (ReuploadUpdate(h, TRUE) /\ orders[hs[h].oid].status = "Payment Rejected")
            => /\ orders'[hs[h].oid].status = "Processing"
               /\ Get(orders'[hs[h].oid], "rejectionReason") \in {"", Undefined}
               /\ Get(orders'[hs[h].oid], "paymentProof") = hs[h].file]_vars

\* C10: when staff set an order's status to Cancelled, every listing of the
\* order is Available afterwards.
C10_StaffCancelReleases ==
    [][\A o \in OrderIds :
        (SetOrderStatus(o, "Cancelled", TRUE) /\ o \in DOMAIN orders)
            => \A l \in orders[o].items : livestock'[l] = "Available"]_vars

\* the five statuses of the order state machine
OrderStatuses == {"Processing", "Payment Rejected", "Shipped", "Delivered", "Cancelled"}

\* C11: an order whose status is Delivered or Cancelled keeps that status in
\* every step.
C11_TerminalStatuses ==
    [][\A o \in DOMAIN orders :
        orders[o].status \in {"Delivered", "Cancelled"}
            => orders'[o].status = orders[o].status]_vars

\* C12: the update step of resubmitProof on an order that is Shipped,
\* Delivered or Cancelled changes neither its status nor its stored proof.
C12_ResubmitOnlyWhenLegal ==
    [][\A h \in Handlers :
        (/\ ReuploadUpdate(h, TRUE)
         /\ orders[hs[h].oid].status \in {"Shipped", "Delivered", "Cancelled"})
            => /\ orders'[hs[h].oid].status = orders[hs[h].oid].status
               /\ Get(orders'[hs[h].oid], "paymentProof")
                    = Get(orders[hs[h].oid], "paymentProof")]_vars

\* C13: rejectPayment on an order that is not Processing leaves the order as
\* it is and goes on to no notification.
C13_RejectOnlyProcessing ==
    [][\A h \in Handlers, o \in DOMAIN orders, reason \in Reasons :
        (/\ orders[o].status # "Processing"
         /\ RejectUpdate(h, o, reason, hs'[h].id, hs'[h].timestamp, TRUE))
            => /\ orders'[o] = orders[o]
               /\ hs'[h].pc # "reject_notify"]_vars

\* C14: the step of createOrder that persists the order persists it with
\* status Processing, whatever the request body holds, and when createOrder
\* answers 201 the order is stored and the requester's cart is empty.
C14_CreatedProcessingCartCleared ==
    [][/\ \A h \in Handlers, r \in CreateRequests :
            (CreateOrderSave(h, r.user, r.body, r.file, TRUE) /\ orders' # orders)
                => /\ orders' = Append(orders, orders'[Len(orders')])
                   /\ orders'[Len(orders')].status = "Processing"
                   /\ orders'[Len(orders')].userId = r.user
       /\ \A h \in Handlers :
            (/\ hs[h].pc = "create_clearCart" /\ hs'[h].pc = "idle"
             /\ out' = Response("createOrder", 201, "none"))
                => /\ hs[h].oid \in DOMAIN orders'
                   /\ users'[hs[h].user].cart = {}]_vars

\* C14 witness: a createOrder has answered 201, its order is stored as
\* Processing with its items, and the owner's cart is empty
C14_Witness ==
    /\ out = Response("createOrder", 201, "none")
    /\ \E o \in DOMAIN orders :
            /\ orders[o].status = "Processing"
            /\ orders[o].items # {}
            /\ users[orders[o].userId].cart = {}

\* C15: cancelOrder, and resubmitProof with a file, requested on a stored
\* order by a user who is not its owner, are answered 404 in their first step
\* and change no order, no listing and no user.
C15_OwnershipEnforced ==
    [][\A h \in Handlers, o \in DOMAIN orders :
        \A u \in Users \ {orders[o].userId} :
            /\ CancelFind(h, u, o, TRUE)
                    => /\ out' = Response("cancelOrder", 404, "none")
                       /\ hs'[h].pc = "idle"
                       /\ UNCHANGED <<livestock, orders, users>>
            /\ ReuploadFind(h, u, o, "proofA", TRUE)
                    => /\ out' = Response("resubmitProof", 404, "none")
                       /\ hs'[h].pc = "idle"
                       /\ UNCHANGED <<livestock, orders, users>>]_vars

\* C15 witness: a proof sent for another user's Payment Rejected order has
\* been answered 404 (in a run where every such request comes from a user who
\* does not own the order), and the order is still Payment Rejected
C15_Witness ==
    /\ out = Response("resubmitProof", 404, "none")
    /\ \E o \in DOMAIN orders :
            orders[o].userId = "u1" /\ orders[o].status = "Payment Rejected"

\* an order some rejectPayment has notified its owner about
WasRejected(o) ==
    \E i \in DOMAIN users[orders[o].userId].notifications :
        users[orders[o].userId].notifications[i].order = o

\* C16: in every reachable state, an order that holds a non-empty
\* rejectionReason has status Payment Rejected.
C16_ReasonOnlyWhenRejected ==
    \A o \in DOMAIN orders :
        Get(orders[o], "rejectionReason") \notin {Undefined, ""}
            => orders[o].status = "Payment Rejected"

\* C16 witness: an order that was rejected and then set to Shipped by staff
\* holds no rejection reason
C16_Witness ==
    \E o \in DOMAIN orders :
        /\ WasRejected(o)
        /\ orders[o].status = "Shipped"
        /\ Get(orders[o], "rejectionReason") \in {Undefined, ""}

\* C17: in every reachable state, every order's status is one of Processing,
\* Payment Rejected, Shipped, Delivered, Cancelled.
C17_StatusInStateMachine ==
    \A o \in DOMAIN orders : orders[o].status \in OrderStatuses

\* C18: no step changes the items or the total of a stored order.
C18_ItemsAndTotalFrozen ==
    [][\A o \in DOMAIN orders :
        o \in DOMAIN orders'
            => /\ Get(orders'[o], "items") = Get(orders[o], "items")
               /\ Get(orders'[o], "total") = Get(orders[o], "total")]_vars

\* C18 witness: an order that was rejected and has ended Cancelled still
\* holds the items and the total it was created with
C18_Witness ==
    \E o \in DOMAIN orders :
        /\ WasRejected(o)
        /\ orders[o].status = "Cancelled"
        /\ orders[o].items = {"L1", "L2"}
        /\ orders[o].total = 500

\* C19: no step removes a stored order: every order stays in the store under
\* its identifier, with its owner.
C19_OrdersNeverRemoved ==
    [][\A o \in DOMAIN orders :
        /\ o \in DOMAIN orders'
        /\ orders'[o].userId = orders[o].userId
        /\ orders'[o].customer = orders[o].customer]_vars

\* C19 witness: cancelOrder has answered 200 and the Cancelled order is in
\* the store
C19_Witness ==
    /\ out.op = "cancelOrder" /\ out.code = 200
    /\ \E o \in DOMAIN orders : orders[o].status = "Cancelled"

\* C20: a listing's status changes only in the reservation step of a
\* createOrder that holds the listing (to Sold) or in the release step of a
\* cancelOrder that holds it (to Available).
C20_OnlyReserveAndReleaseWrite ==
    [][\A l \in Listings :
        livestock'[l] # livestock[l]
            => \E h \in Handlers :
                /\ l \in hs[h].items
                /\ \/ hs[h].pc = "create_reserve" /\ livestock'[l] = "Sold"
                   \/ hs[h].pc = "cancel_release" /\ livestock'[l] = "Available"]_vars

\* C21: in every reachable state, a listing that is Sold is among the items
\* of some stored order.
C21_SoldOnlyWithOrder ==
    \A l \in Listings :
        livestock[l] = "Sold" => \E o \in DOMAIN orders : l \in orders[o].items

\* C22: in every reachable state, no listing is among the items of two
\* orders that are both not Cancelled.
C22_ExclusiveClaim ==
    \A o1, o2 \in DOMAIN orders :
        (/\ o1 # o2
         /\ orders[o1].status # "Cancelled"
         /\ orders[o2].status # "Cancelled")
            => orders[o1].items \cap orders[o2].items = {}

\* C23: when the notification step of rejectPayment fails on an order that
\* is Payment Rejected, the order is still Payment Rejected afterwards and
\* holds the reason of the rejection.
C23_FailedNotifyKeepsRejection ==
    [][\A h \in Handlers :
        (/\ hs[h].pc = "reject_notify" /\ hs'[h].pc = "idle"
         /\ out' = Response("rejectPayment", 500, "StorageFault")
         /\ orders[hs[h].oid].status = "Payment Rejected")
            => /\ orders'[hs[h].oid].status = "Payment Rejected"
               /\ Get(orders'[hs[h].oid], "rejectionReason")
                    = ReasonOrDefault(hs[h].reason)]_vars

\* C24: when the notification step of rejectPayment fails, rejectPayment
\* still answers OK.
C24_FailedNotifySwallowed ==
    [][\A h \in Handlers :
        (/\ hs[h].pc = "reject_notify" /\ hs'[h].pc = "idle"
         /\ users' = users)
            => out'.op = "rejectPayment" /\ out'.code = 200]_vars

\* C27: the release step of cancelOrder answers 200 whatever the status of
\* the listings; it leaves each listing that was Available as it was, and
\* after it every listing its update matched is Available, so that the same
\* release applied again changes nothing.
C27_ReleaseIdempotent ==
    [][\A h \in Handlers :
        (hs[h].pc = "cancel_release" /\ CancelRelease(h, TRUE))
            => /\ out' = Response("cancelOrder", 200, "none")
               /\ \A l \in Listings :
                    livestock[l] = "Available" => livestock'[l] = "Available"
               /\ \A l \in Listings \cap hs[h].items : livestock'[l] = "Available"
               /\ \A l \in Listings \ hs[h].items : livestock'[l] = livestock[l]]_vars

\* C27 witness: a cancelOrder has answered 200 on an order whose listings
\* were Available already, and they are Available
C27_Witness ==
    /\ out = Response("cancelOrder", 200, "none")
    /\ \E o \in DOMAIN orders :
            /\ orders[o].status = "Cancelled"
            /\ orders[o].items # {}
            /\ \A l \in orders[o].items : livestock[l] = "Available"

\* C28: no step of rejectPayment changes the status of a listing, and the
\* listings of a Payment Rejected order, once all Sold, stay Sold in every
\* step that does not leave the order Cancelled.
C28_RejectedOrderHoldsListings ==
    [][/\ \A h \in Handlers :
            (\/ \E o \in OrderIds, reason \in Reasons, dbOk \in BOOLEAN :
                    RejectUpdate(h, o, reason, hs'[h].id, hs'[h].timestamp, dbOk)
             \/ \E dbOk \in BOOLEAN : RejectNotify(h, dbOk))
                => livestock' = livestock
       /\ \A o \in DOMAIN orders :
            (/\ orders[o].status = "Payment Rejected"
             /\ \A l \in orders[o].items : livestock[l] = "Sold")
                => \/ \A l \in orders[o].items : livestock'[l] = "Sold"
                   \/ orders'[o].status = "Cancelled"]_vars

\* C29: setOrderStatus and rejectPayment on an identifier that no stored
\* order has are answered 404 and change no order and no inbox.
C29_UnknownOrderNotFound ==
    [][\A o \in OrderIds \ DOMAIN orders :
        /\ \A status \in StatusInputs :
                SetOrderStatus(o, status, TRUE)
                    => out'.code = 404 /\ UNCHANGED <<orders, users>>
        /\ \A h \in Handlers, reason \in Reasons :
                RejectUpdate(h, o, reason, hs'[h].id, hs'[h].timestamp, TRUE)
                    => /\ out' = Response("rejectPayment", 404, "none")
                       /\ hs'[h].pc = "idle"
                       /\ UNCHANGED <<orders, users>>]_vars

\* C26: getProof for a stored order, each of which had the file proofA
\* attached at creation and at every resubmitProof, answers 200 with that
\* file.
C26_ProofRoundTrip ==
    [][\A o \in DOMAIN orders :
        GetProof(o, TRUE) => out'.code = 200 /\ out'.body = "proofA"]_vars

\* C25: the notification step of rejectPayment appends one record to the
\* owner's inbox, with seen = false and an id that no record already in the
\* inbox has, and leaves the records already there as they were.
C25_FreshUnseenNotification ==
    [][\A h \in Handlers :
        RejectNotify(h, TRUE)
            => LET old == users[hs[h].user].notifications
                   new == users'[hs[h].user].notifications
               IN  /\ Len(new) = Len(old) + 1
                   /\ SubSeq(new, 1, Len(old)) = old
                   /\ new[Len(new)].seen = FALSE
                   /\ \A i \in DOMAIN old : old[i].id # new[Len(new)].id]_vars

\* C30: a request whose connectDB has thrown, or that was in flight when the
\* runtime gave up on one, is eventually answered: its handler ends.
C30_FailedConnectAnswered ==
    \A h \in Handlers : (hs[h].pc = "no_response") ~> (hs[h].pc = "idle")

\* C31: the save step of a cancelOrder never writes Cancelled over a status
\* of Shipped, Delivered or Payment Rejected that was written since the
\* cancelOrder read the order, and its release step then releases nothing.
C31_CancelAgainstCurrentStatus ==
    [][\A h \in Handlers :
        (/\ hs[h].pc = "cancel_save"
         /\ orders[hs[h].oid].status \in {"Shipped", "Delivered", "Payment Rejected"})
            => /\ orders'[hs[h].oid].status = orders[hs[h].oid].status
               /\ hs'[h].pc # "cancel_release"]_vars

\* C32: in every reachable state in which no createOrder and no cancelOrder
\* is in progress, each listing among the items of an order that is not
\* Cancelled is Sold.
C32_LiveOrdersHoldListings ==
    (\A h \in Handlers : hs[h].pc = "idle")
        => \A o \in DOMAIN orders :
                orders[o].status # "Cancelled"
                    => \A l \in orders[o].items : livestock[l] = "Sold"

\* the fields of an order that a status transition could touch
Record(order) ==
    [p \in {"status", "rejectionReason", "paymentProof", "items", "total"} |->
        Get(order, p)]

\* C33: a step changes at most one stored order: while one order's status,
\* rejectionReason, proof, items or total changes, those of every other
\* order stay as they were.
C33_OneOrderPerTransition ==
    [][\A a, b \in DOMAIN orders :
        (a # b /\ orders'[a] # orders[a]) => Record(orders'[b]) = Record(orders[b])]_vars

\* C33 witness: u1's order is Cancelled and was rejected before, while u2's
\* order, which shares L2 with it, is Processing with its items and total
C33_Witness ==
    \E a, b \in DOMAIN orders :
        /\ orders[a].userId = "u1" /\ orders[b].userId = "u2"
        /\ WasRejected(a)
        /\ orders[a].status = "Cancelled"
        /\ orders[b].status = "Processing"
        /\ orders[b].items = {"L2", "L3"}
        /\ orders[b].total = 500

\* C34: a staff status write on a stored order, whatever the order's current
\* status and whatever the status sent, sets the order's status to the status
\* sent and changes no other field of the order, no other order and no listing.
C34_StatusWrittenUnchecked ==
    [][\A o \in DOMAIN orders, status \in StatusInputs :
        SetOrderStatus(o, status, TRUE)
            => /\ orders' = [orders EXCEPT ![o].status = status]
               /\ livestock' = livestock]_vars

\* C34 witness: staff were answered 200 and u1's order, rejected before, has
\* the status Refunded with its items and total as created
C34_Witness ==
    /\ out = Response("setOrderStatus", 200, "none")
    /\ \E o \in DOMAIN orders :
            /\ WasRejected(o)
            /\ orders[o].status = "Refunded"
            /\ orders[o].items = {"L1", "L2"}
            /\ orders[o].total = 500

\* C35: the reservation step of a createOrder and the release step of a
\* cancelOrder change no listing outside the order's items, and the step of a
\* createOrder that clears the basket changes no other user's record and
\* leaves the requester's wishlist, addresses and notifications as they were.
C35_OnlyOwnListingsAndBasket ==
    [][\A h \in Handlers, dbOk \in BOOLEAN :
        /\ CreateOrderReserve(h, dbOk)
                => \A l \in Listings \ hs[h].items : livestock'[l] = livestock[l]
        /\ (hs[h].pc = "cancel_release" /\ CancelRelease(h, dbOk))
                => \A l \in Listings \ orders[hs[h].oid].items :
                        livestock'[l] = livestock[l]
        /\ CreateOrderClearCart(h, dbOk)
                => /\ \A u \in Users \ {hs[h].user} : users'[u] = users[u]
                   /\ users'[hs[h].user].wishlist = users[hs[h].user].wishlist
                   /\ users'[hs[h].user].addresses = users[hs[h].user].addresses
                   /\ users'[hs[h].user].notifications
                        = users[hs[h].user].notifications]_vars

\* C35 witness: u1's order of L1 and L2 was answered 201: L1 and L2 are Sold
\* and L3 is Available, u1's basket is empty and its wishlist is kept, u2's
\* basket is full
C35_Witness ==
    /\ out = Response("createOrder", 201, "none")
    /\ \A l \in Listings : livestock[l] = IF l \in {"L1", "L2"} THEN "Sold" ELSE "Available"
    /\ users["u1"].cart = {}
    /\ users["u1"].wishlist = InitialWishlist("u1")
    /\ users["u1"].addresses = InitialAddresses("u1")
    /\ users["u2"].cart = InitialCart("u2")

\* C36: the order stored by a createOrder is owned by the requester, whatever
\* userId the request body names, and no step changes the owner of a stored
\* order.
C36_OwnerIsRequester ==
    [][/\ \A o \in DOMAIN orders : orders'[o].userId = orders[o].userId
       /\ \A h \in Handlers, r \in CreateRequests :
            (CreateOrderSave(h, r.user, r.body, r.file, TRUE) /\ Len(orders') > Len(orders))
                => orders'[Len(orders')].userId = r.user]_vars

\* C36 witness: u1's order, created by the request whose body names u2, is the
\* only order; it is owned by u1 after it was rejected and then shipped
C36_Witness ==
    /\ Len(orders) = 1
    /\ orders[1].userId = "u1"
    /\ orders[1].customer = UserName("u1")
    /\ WasRejected(1)
    /\ orders[1].status = "Shipped"

\* C37: a resubmitProof without a file is answered 400 whether or not the
\* database answers, starts no database call and changes no order.
C37_NoFileRefusedFirst ==
    [][\A h \in Handlers, u \in Users, o \in OrderIds, dbOk \in BOOLEAN :
        ReuploadFind(h, u, o, NoFile, dbOk)
            => /\ out' = Response("resubmitProof", 400, "none")
               /\ hs'[h].pc = "idle"
               /\ orders' = orders]_vars

\* C37 witness: a resubmitProof was answered 400 while the stored order is
\* Shipped, not put back to Processing, with its items as created
C37_Witness ==
    /\ out = Response("resubmitProof", 400, "none")
    /\ \E o \in DOMAIN orders :
            /\ orders[o].status = "Shipped"
            /\ orders[o].items = {"L1", "L2"}

\* C38: a Processing order whose listings are all Sold stays Processing with
\* its listings Sold in every step that is not a step of a cancelOrder, a
\* setOrderStatus or a rejectPayment on that order.
C38_ProcessingUntilExplicitAction ==
    [][\A o \in DOMAIN orders :
        (/\ orders[o].status = "Processing"
         /\ \A l \in orders[o].items : livestock[l] = "Sold")
            => \/ /\ orders'[o].status = "Processing"
                  /\ \A l \in orders[o].items : livestock'[l] = "Sold"
               \/ \E h \in Handlers, dbOk \in BOOLEAN :
                    hs[h].oid = o /\ (CancelSave(h, dbOk) \/ CancelRelease(h, dbOk))
               \/ \E status \in StatusInputs, dbOk \in BOOLEAN :
                    SetOrderStatus(o, status, dbOk)
               \/ \E h \in Handlers, reason \in Reasons, dbOk \in BOOLEAN :
                    RejectUpdate(h, o, reason, hs'[h].id, hs'[h].timestamp, dbOk)]_vars

====
